---- MODULE Spec2Model ----
(***************************************************************************)
(* A model of src/lib/sitemap-index-stream.ts: SitemapIndexStream (the     *)
(* index writer) and SitemapAndIndexStream (the rotation orchestrator),    *)
(* together with the SitemapStream shards the orchestrator drives.         *)
(*                                                                         *)
(* SitemapStream lives in lib/sitemap-stream.ts, which is not among the    *)
(* sources; its write/end protocol is taken from the specification (4.1)   *)
(* and from the figures its tests pin (src/tests/sitemap-stream.test.ts).  *)
(*                                                                         *)
(* One action is one synchronous run of JavaScript: from a call or a       *)
(* resumed await up to the next await.  The program's objects are records; *)
(* the handlers are operators from a world (all objects) to a world, so    *)
(* that a handler calling another (callback -> next _transform -> finally  *)
(* -> doTheFlush) composes as the code does.                               *)
(***************************************************************************)
EXTENDS Integers, Sequences, FiniteSets, TLC

VARIABLES
  sms,      \* the SitemapAndIndexStream's own fields (lines 160-169)
  index,    \* its inherited SitemapIndexStream part: hasHeadOutput, output
  shards,   \* every SitemapStream the factory returned, with its sink
  stream,   \* Node's Writable/Transform state of the orchestrator
  task,     \* the async closure of the _transform in progress
  h,        \* history: what the producer wrote and what was called back
  smis,     \* a stand-alone SitemapIndexStream (tests, lines 31-152)
  sm,       \* a stand-alone SitemapStream (tests of sitemap-stream)
  opts,     \* the options given to new SitemapAndIndexStream
  env       \* the caller's side: what the factory will do when next called

vars == <<sms, index, shards, stream, task, h, smis, sm, opts, env>>

----------------------------------------------------------------------------
(* Bounds of the model *)

MaxItems == 4          \* items the producer writes
MaxShards == 5         \* factory calls (caps an unbounded rotation loop)
MaxCountLimit == 2     \* opts.countLimit ranges over 1..MaxCountLimit
MaxIndexWrites == 2    \* writes to the stand-alone index stream
MaxStreamOps == 4      \* operations on the stand-alone SitemapStream
MaxLateWrites == 2     \* writes to the stand-alone index stream after end()
MaxFaults == 2         \* misbehaviours of the caller in one run
MaxFaultItems == 3     \* items the producer writes to a misused orchestrator
MaxRetries == 2        \* passes of the write-after-end `continue` per item
MaxEndCalls == 2       \* end() calls counted per shard (2: twice or more)

(* Sizes, in bytes.  The tests give preamble + first item + closing tag =  *)
(* 375 with a 41-byte item, a 325-byte preamble and a 9-byte closing tag.  *)
PreambleLen == 325
CloseTagLen == 9
DefaultByteLimit == 47185920
DefaultCountLimit == 45000

\* opts.byteLimit: 400 (index test), 430 (two items fit), or absent.
ByteLimits == {400, 430, DefaultByteLimit}
CountLimits == 1..MaxCountLimit
\* encoded item lengths: 45 as in the index tests; 100 fits no shard of
\* 400 or 430 bytes.
ItemLens == {45, 100}

----------------------------------------------------------------------------
(* Helpers *)

Last(s) == s[Len(s)]

Range(s) == {s[i] : i \in 1..Len(s)}

RECURSIVE SumLen(_)
SumLen(s) == IF s = <<>> THEN 0 ELSE Head(s).len + SumLen(Tail(s))

SelectT(s, t) == SelectSeq(s, LAMBDA c : c.t = t)

RECURSIVE Ids(_)
Ids(s) == IF s = <<>> THEN <<>> ELSE <<Head(s).id>> \o Ids(Tail(s))

----------------------------------------------------------------------------
(* SitemapStream: one shard (specification 4.1; tests of sitemap-stream).  *)
(* A limit on a shard is {} while undefined and {n} once set.              *)

PreChunk == [t |-> "pre", id |-> 0, len |-> PreambleLen]
CloseChunk == [t |-> "close", id |-> 0, len |-> CloseTagLen]
UrlChunk(item) == [t |-> "url", id |-> item.id, len |-> item.len]

\* new SitemapStream(), piped into a sink when the factory returns one
\* (tests/sitemap-index.test.ts, lines 193-199).  byteCount counts the
\* closing tag from the start: it is 375 = 325 + 41 + 9 after the first
\* write of 41 bytes, before end() (tests of sitemap-stream, line 193),
\* and the first write is checked with byteCount + preamble + item (4.1).
NewShard(i, pipe) ==
  [ ord |-> i, itemCount |-> 0, byteCount |-> CloseTagLen,
    countLimit |-> {}, byteLimit |-> {},
    hasHeadOutput |-> FALSE, wroteCloseTag |-> FALSE,
    destroyed |-> FALSE, ending |-> FALSE, finished |-> FALSE,
    out |-> <<>>,
    endCbs |-> <<>>,        \* callbacks given to end(), waiting for finish
    lateCbs |-> <<>>,       \* callbacks given to end() after finish/destroy
    hasSink |-> pipe, sinkFinished |-> FALSE,
    sinkListeners |-> <<>>,  \* 'finish' listeners on the sink
    errorListener |-> FALSE, \* the orchestrator's 'error' listener is on
    endCalls |-> 0 ]         \* end() calls the orchestrator made on it

\* preambleIfFirst (4.1, step 2): the preamble goes out with the first item
HeadLen(sh) == IF sh.hasHeadOutput THEN 0 ELSE PreambleLen

\* WriteResult with the count limit checked ahead of the byte limit.
WriteResult_CountFirst(sh, item) ==
  IF sh.ending THEN "ERR_STREAM_WRITE_AFTER_END"
  ELSE IF sh.destroyed THEN "ERR_STREAM_DESTROYED"
  ELSE IF sh.wroteCloseTag THEN "WriteAfterCloseTagError"
  ELSE IF item.bad THEN "ItemValidationError"
  ELSE IF \E c \in sh.countLimit : sh.itemCount + 1 > c
    THEN "CountLimitExceededError"
  ELSE IF \E b \in sh.byteLimit : sh.byteCount + HeadLen(sh) + item.len > b
    THEN "ByteLimitExceededError"
  ELSE "ok"

\* WriteResult without Node's checks and without the closing-tag check:
\* a write to a closed stream is judged like any other.
WriteResult_NoTerminalCheck(sh, item) ==
  IF item.bad THEN "ItemValidationError"
  ELSE IF \E b \in sh.byteLimit : sh.byteCount + HeadLen(sh) + item.len > b
    THEN "ByteLimitExceededError"
  ELSE IF \E c \in sh.countLimit : sh.itemCount + 1 > c
    THEN "CountLimitExceededError"
  ELSE "ok"

\* The outcome of write(item): Node's write-after-end / destroyed checks,
\* the item's validation (4.1, step 1; an invalid item fails the write at
\* level throw), then the byte limit, then the count limit.
WriteResult(sh, item) ==
  IF sh.ending THEN "ERR_STREAM_WRITE_AFTER_END"
  ELSE IF sh.destroyed THEN "ERR_STREAM_DESTROYED"
  ELSE IF sh.wroteCloseTag THEN "WriteAfterCloseTagError"
  ELSE IF item.bad THEN "ItemValidationError"
  ELSE IF \E b \in sh.byteLimit : sh.byteCount + HeadLen(sh) + item.len > b
    THEN "ByteLimitExceededError"
  ELSE IF \E c \in sh.countLimit : sh.itemCount + 1 > c
    THEN "CountLimitExceededError"
  ELSE "ok"

IsLimitError(r) == r \in {"ByteLimitExceededError", "CountLimitExceededError"}

IsWriteAfterTerminal(r) ==
  r \in {"WriteAfterCloseTagError", "ERR_STREAM_WRITE_AFTER_END",
         "ERR_STREAM_DESTROYED"}

\* EmitCloseTag counting the closing tag when it is emitted, although it
\* is counted already.
EmitCloseTag_CountAgain(sh) ==
  IF sh.wroteCloseTag THEN sh
  ELSE [sh EXCEPT !.out = Append(@, CloseChunk),
                  !.wroteCloseTag = TRUE,
                  !.byteCount = @ + CloseTagLen]

\* The closing tag, emitted once; its bytes are in byteCount already.
EmitCloseTag(sh) ==
  IF sh.wroteCloseTag THEN sh
  ELSE [sh EXCEPT !.out = Append(@, CloseChunk),
                  !.wroteCloseTag = TRUE]

\* ShardWrite destroying the shard on a limit error without the closing tag.
ShardWrite_NoCloseTag(sh, item) ==
  LET r == WriteResult(sh, item) IN
  IF r = "ok" THEN
    [sh EXCEPT !.out = (IF sh.hasHeadOutput THEN @ ELSE Append(@, PreChunk))
                         \o <<UrlChunk(item)>>,
               !.hasHeadOutput = TRUE,
               !.byteCount = @ + HeadLen(sh) + item.len,
               !.itemCount = @ + 1]
  ELSE IF IsLimitError(r) THEN [sh EXCEPT !.destroyed = TRUE]
  ELSE sh

\* The shard after write(item).
ShardWrite(sh, item) ==
  LET r == WriteResult(sh, item) IN
  IF r = "ok" THEN
    [sh EXCEPT !.out = (IF sh.hasHeadOutput THEN @ ELSE Append(@, PreChunk))
                         \o <<UrlChunk(item)>>,
               !.hasHeadOutput = TRUE,
               !.byteCount = @ + HeadLen(sh) + item.len,
               !.itemCount = @ + 1]
  ELSE IF IsLimitError(r) THEN
    [EmitCloseTag(sh) EXCEPT !.destroyed = TRUE]
  ELSE sh

\* ShardEnd leaving the closing tag to a later step: end() returns with
\* wroteCloseTag still false.
ShardEnd_CloseTagLater(sh, cb) ==
  LET s1 == IF sh.ending \/ sh.destroyed THEN sh
            ELSE [sh EXCEPT !.ending = TRUE]
  IN IF cb = 0 THEN s1
     ELSE IF sh.finished \/ sh.destroyed
       THEN [s1 EXCEPT !.lateCbs = Append(@, cb)]
       ELSE [s1 EXCEPT !.endCbs = Append(@, cb)]

\* end(cb): cb = 0 stands for no callback, cb = k > 0 for an onFinish
\* closure holding k flush callbacks.  A second end(), or an end() of a
\* destroyed stream, changes nothing; its callback runs on the next tick.
ShardEnd(sh, cb) ==
  LET s1 == IF sh.ending \/ sh.destroyed THEN sh
            ELSE [EmitCloseTag(sh) EXCEPT !.ending = TRUE]
  IN IF cb = 0 THEN s1
     ELSE IF sh.finished \/ sh.destroyed
       THEN [s1 EXCEPT !.lateCbs = Append(@, cb)]
       ELSE [s1 EXCEPT !.endCbs = Append(@, cb)]

\* The countLimit setter throws ('cannot set countLimit if already set',
\* 'cannot set countLimit if items written already'), and so the byteLimit
\* setter for its own limit.
SetCountLimitThrows(sh) == sh.countLimit # {} \/ sh.itemCount > 0

SetByteLimitThrows(sh) == sh.byteLimit # {} \/ sh.itemCount > 0

\* SetCountLimit assigning although the setter throws.
SetCountLimit_Overwrite(sh, v) == [sh EXCEPT !.countLimit = {v}]

\* sm.countLimit = v: nothing changes when the setter throws
SetCountLimit(sh, v) ==
  IF SetCountLimitThrows(sh) THEN sh ELSE [sh EXCEPT !.countLimit = {v}]

\* sm.byteLimit = v
SetByteLimit(sh, v) ==
  IF SetByteLimitThrows(sh) THEN sh ELSE [sh EXCEPT !.byteLimit = {v}]

\* Either assignment of lines 387-388 (206-207) throws.
SetLimitThrows(sh) == SetByteLimitThrows(sh) \/ SetCountLimitThrows(sh)

\* currentSitemap.byteLimit = b; currentSitemap.countLimit = c
ShardSetLimits(sh, b, c) == SetCountLimit(SetByteLimit(sh, b), c)

BytesEmitted(sh) == SumLen(sh.out)
ShardItems(sh) == Ids(SelectT(sh.out, "url"))

----------------------------------------------------------------------------
(* SitemapIndexStream (lines 38-110).  An item written to it is a string   *)
(* (str = TRUE) or an IndexItem {url, lastmod?}; a lastmod is <<>> when    *)
(* absent, <<day>> for a date-only string, <<day, time>> otherwise.        *)

IndexChunk(t, url, lastmod, xsl) ==
  [t |-> t, url |-> url, lastmod |-> lastmod, xsl |-> xsl]

StringItem(u) == [str |-> TRUE, url |-> u, lastmod |-> <<>>]

NewIndex(lastmodDateOnly, xslUrl) ==
  [ hasHeadOutput |-> FALSE, lastmodDateOnly |-> lastmodDateOnly,
    xslUrl |-> xslUrl, out |-> <<>> ]

\* new Date(lastmod).toISOString(): a date-only input gets time 0
ToISOString(lastmod) == IF Len(lastmod) = 1 THEN lastmod \o <<0>> ELSE lastmod

\* lastmod.slice(0, 10): the day alone
Slice10(iso) == SubSeq(iso, 1, 1)

\* _transform (lines 52-82): the head once, then one <sitemap> element
IndexTransform(ix, item) ==
  LET head == IF ix.hasHeadOutput THEN <<>>
              ELSE <<IndexChunk("head", 0, <<>>, ix.xslUrl)>>
      iso == ToISOString(item.lastmod)
      lm == IF item.str \/ item.lastmod = <<>> THEN <<>>
            ELSE <<IndexChunk("lastmod", 0,
                     IF ix.lastmodDateOnly THEN Slice10(iso) ELSE iso, FALSE)>>
  IN [ix EXCEPT !.hasHeadOutput = TRUE,
                !.out = @ \o head
                          \o <<IndexChunk("otag", 0, <<>>, FALSE),
                               IndexChunk("loc", item.url, <<>>, FALSE)>>
                          \o lm
                          \o <<IndexChunk("ctag", 0, <<>>, FALSE)>>]

\* _flush (lines 84-87): the closing tag
IndexFlush(ix) == [ix EXCEPT !.out = Append(@, IndexChunk("close", 0, <<>>, FALSE))]

Locs(ix) == [i \in 1..Len(SelectT(ix.out, "loc")) |-> SelectT(ix.out, "loc")[i].url]

----------------------------------------------------------------------------
(* SitemapAndIndexStream (lines 159-547).  A world is the orchestrator and *)
(* everything it touches.                                                  *)

World ==
  [sms |-> sms, index |-> index, shards |-> shards, stream |-> stream,
   task |-> task, h |-> h, env |-> env]

Commit(w) ==
  /\ sms' = w.sms
  /\ index' = w.index
  /\ shards' = w.shards
  /\ stream' = w.stream
  /\ task' = w.task
  /\ h' = w.h
  /\ env' = w.env

Cur(w) == w.shards[w.sms.currentSitemap]

\* The 'error' listener absorbing whatever the shard emits.
ErrorListener_AbsorbAll(e) == "absorbed"

\* The 'error' listener of lines 191-203 and 390-404: the two limit errors
\* and the three write-after-end errors are absorbed, any other is thrown
\* again.
ErrorListener(e) ==
  IF e \in {"ByteLimitExceededError", "CountLimitExceededError",
            "WriteAfterCloseTagError", "ERR_STREAM_WRITE_AFTER_END",
            "ERR_STREAM_DESTROYED"}
  THEN "absorbed" ELSE "rethrown"

\* currentSitemap.on('error', ...) (lines 191, 390)
OnError(sh) == [sh EXCEPT !.errorListener = TRUE]

\* A shard emits 'error': its listener runs; with no listener Node throws.
EmitError(sh, e) ==
  [shard |-> sh.ord, error |-> e,
   outcome |-> IF sh.errorListener THEN ErrorListener(e) ELSE "unhandled"]

\* What the caller's factory returns: a fresh SitemapStream as in the
\* tests (index tests, lines 193-199), or one built with a countLimit of
\* its own ("preset").
FactoryShard(w, i) ==
  LET fresh == NewShard(i, w.sms.hasPipeline) IN
  IF w.env.factory = "preset"
  THEN [fresh EXCEPT !.countLimit = {w.sms.countLimit + 1}]
  ELSE fresh

\* getSitemapStream(i), assigned to [idxItem, currentSitemap,
\* currentSitemapPipeline] (lines 188-189 and 383-384)
GetSitemapStream(w, i) ==
  [w EXCEPT !.shards = Append(@, FactoryShard(w, i)),
            !.sms.idxItem = StringItem(i),
            !.sms.currentSitemap = Len(w.shards) + 1,
            !.h.factoryCalls = Append(@, i),
            !.env.factory = "fresh"]

\* this.currentSitemap.end(cb) as the orchestrator calls it (lines 368,
\* 531): the call is counted on the shard, up to MaxEndCalls.
EndCurrent(sh, cb) ==
  [ShardEnd(sh, cb) EXCEPT
     !.endCalls = IF @ < MaxEndCalls THEN @ + 1 ELSE @]

\* doTheFlush handing onFinish to end() whether or not there is a sink.
DoTheFlush_AlwaysEndCallback(w) ==
  LET k == w.sms.pendingFlushCallbacks
      c == w.sms.currentSitemap
      w1 == [w EXCEPT !.sms.pendingFlushCallbacks = 0,
                      !.h.flushAt = @ \cup {w.sms.pendingWrites},
                      !.h.flushQueue = @ \cup {k}]
  IN IF Cur(w).hasSink
     THEN [w1 EXCEPT !.shards[c] =
             EndCurrent([@ EXCEPT !.sinkListeners = Append(@, k)], k)]
     ELSE [w1 EXCEPT !.shards[c] = EndCurrent(@, k)]

\* doTheFlush (lines 499-546): the queued callbacks move into an onFinish
\* closure, which is hung on the sink's 'finish' when there is a sink and
\* handed to end() when there is none.
DoTheFlush(w) ==
  LET k == w.sms.pendingFlushCallbacks
      c == w.sms.currentSitemap
      w1 == [w EXCEPT !.sms.pendingFlushCallbacks = 0,
                      !.h.flushAt = @ \cup {w.sms.pendingWrites},
                      !.h.flushQueue = @ \cup {k}]
  IN IF Cur(w).hasSink
     THEN [w1 EXCEPT !.shards[c] =
             EndCurrent([@ EXCEPT !.sinkListeners = Append(@, k)], 0)]
     ELSE [w1 EXCEPT !.shards[c] = EndCurrent(@, k)]

\* _flush calling doTheFlush whatever is pending.
Flush_NoQueue(w) ==
  DoTheFlush([w EXCEPT !.sms.pendingFlushCallbacks = @ + 1,
                       !.h.queued = @ \/ w.sms.pendingWrites > 0])

\* _flush (lines 483-497)
Flush(w) ==
  IF w.sms.pendingWrites > 0 \/ w.sms.pendingFlushCallbacks > 0
  THEN [w EXCEPT !.sms.pendingFlushCallbacks = @ + 1,
                 !.h.queued = @ \/ w.sms.pendingWrites > 0]
  ELSE DoTheFlush([w EXCEPT !.sms.pendingFlushCallbacks = @ + 1])

\* onFinish (lines 511-529): callbacks.forEach((cb) => this._flush(cb))
RECURSIVE OnFinish(_, _)
OnFinish(w, k) ==
  IF k = 0 THEN w
  ELSE OnFinish(Flush([w EXCEPT !.h.onFinishAt = @ \cup
                         {[hasSink |-> Cur(w).hasSink,
                           finished |-> Cur(w).finished,
                           sinkFinished |-> Cur(w).sinkFinished]}]),
                k - 1)

RECURSIVE RunCallbacks(_, _)
RunCallbacks(w, cbs) ==
  IF cbs = <<>> THEN w ELSE RunCallbacks(OnFinish(w, Head(cbs)), Tail(cbs))

NoItem == [id |-> 0, len |-> 0, bad |-> FALSE]
IdleTask == [pc |-> "idle", item |-> NoItem, sitemapAtStart |-> 0, res |-> "none"]

\* LoopWrite advancing sitemapCount for every item, not for the first only.
LoopWrite_AlwaysCount(w) ==
  LET w1 == [w EXCEPT !.sms.sitemapCount = @ + 1]
      c == w1.sms.currentSitemap
      r == WriteResult(w1.shards[c], w1.task.item)
  IN [w1 EXCEPT !.shards[c] = ShardWrite(@, w1.task.item),
                !.task.res = r,
                !.task.pc = "write",
                !.h.byteHit = @ \/ r = "ByteLimitExceededError",
                !.h.attempts = Append(@, w1.task.item.id),
                !.h.targets = Append(@, [to |-> c, of |-> Len(w1.shards),
                                         start |-> w1.task.sitemapAtStart,
                                         res |-> r,
                                         entries |-> Len(Locs(w1.index)),
                                         byteLimit |-> w1.shards[c].byteLimit,
                                         countLimit |-> w1.shards[c].countLimit]),
                !.h.shardErrors =
                   IF r = "ok" THEN @ ELSE @ \cup {EmitError(w1.shards[c], r)}]

\* The top of the while loop up to its first await (lines 323-337): the
\* write reaches the shard when writeAsync is called; its outcome is read
\* when the await resumes.
LoopWrite(w) ==
  LET w1 == IF w.sms.itemCountTotal = 1
            THEN [w EXCEPT !.sms.sitemapCount = @ + 1] ELSE w
      c == w1.sms.currentSitemap
      r == WriteResult(w1.shards[c], w1.task.item)
  IN [w1 EXCEPT !.shards[c] = ShardWrite(@, w1.task.item),
                !.task.res = r,
                !.task.pc = "write",
                !.h.byteHit = @ \/ r = "ByteLimitExceededError",
                !.h.attempts = Append(@, w1.task.item.id),
                !.h.targets = Append(@, [to |-> c, of |-> Len(w1.shards),
                                         start |-> w1.task.sitemapAtStart,
                                         res |-> r,
                                         entries |-> Len(Locs(w1.index)),
                                         byteLimit |-> w1.shards[c].byteLimit,
                                         countLimit |-> w1.shards[c].countLimit]),
                !.h.shardErrors =
                   IF r = "ok" THEN @ ELSE @ \cup {EmitError(w1.shards[c], r)}]

\* _transform up to its first await (lines 292, 311-312, then the loop)
TransformStart(w, item) ==
  LoopWrite([w EXCEPT !.sms.pendingWrites = @ + 1,
                      !.sms.itemCountTotal = @ + 1,
                      !.stream.writing = TRUE,
                      !.task = [pc |-> "start", item |-> item,
                                sitemapAtStart |-> w.sms.currentSitemap,
                                res |-> "none"],
                      !.h.rotations = 0,
                      !.h.retries = 0])

\* finally (lines 473-479)
Finally(w) ==
  LET w1 == [w EXCEPT !.sms.pendingWrites = @ - 1] IN
  IF w1.sms.pendingWrites = 0 /\ w1.sms.pendingFlushCallbacks > 0
  THEN DoTheFlush(w1) ELSE w1

\* callback() (line 350) as Node's Writable runs it: the next buffered
\* write enters _transform at once; with none buffered and end() called,
\* _flush is called, in this run (syncFinal) or in a later one.
CallbackOk(w, syncFinal) ==
  LET w1 == [w EXCEPT !.stream.writing = FALSE,
                      !.task = IdleTask,
                      !.h.accepted = Append(@, w.task.item.id),
                      !.h.entriesAtCallback = Append(@, Len(Locs(w.index)))]
  IN IF w1.stream.inbuf # <<>>
     THEN TransformStart([w1 EXCEPT !.stream.inbuf = Tail(@)],
                         Head(w1.stream.inbuf))
     ELSE IF w1.stream.ending /\ ~w1.stream.finalCalled /\ syncFinal
     THEN Flush([w1 EXCEPT !.stream.finalCalled = TRUE])
     ELSE w1

\* callback(error) (lines 449, 457): Node destroys the orchestrator, drops
\* the buffered writes and never calls _flush.
CallbackErr(w, e) ==
  [w EXCEPT !.stream.writing = FALSE,
            !.stream.errored = TRUE,
            !.stream.inbuf = <<>>,
            !.task = IdleTask,
            !.h.failed = Append(@, [id |-> w.task.item.id, error |-> e])]

\* Success obtaining the next shard as soon as the current one is full.
Success_EagerShard(w, syncFinal) ==
  LET w1 == IF Cur(w).itemCount >= w.sms.countLimit /\ Len(w.shards) < MaxShards
            THEN GetSitemapStream(w, Len(w.shards)) ELSE w
  IN Finally(CallbackOk(w1, syncFinal))

\* lines 350-351 followed by the finally block
Success(w, syncFinal) == Finally(CallbackOk(w, syncFinal))

\* The outer catch without the finally block behind it.
OuterCatch_NoFinally(w) == [w EXCEPT !.task.pc = "hung"]

\* The outer catch (lines 461-472) logs and calls no callback.
OuterCatch(w) == Finally([w EXCEPT !.task.pc = "hung"])

\* Rotate without line 388: the new shard gets no countLimit.
Rotate_NoCountLimit(w) ==
  LET c == w.sms.currentSitemap
      w1 == IF ~Cur(w).destroyed
            THEN [w EXCEPT !.shards[c] = EndCurrent(@, 0)] ELSE w
      w2 == GetSitemapStream(w1, w1.sms.sitemapCount)
      n == w2.sms.currentSitemap
  IN [w2 EXCEPT !.shards[n] = OnError(SetByteLimit(@, w2.sms.byteLimit)),
                !.index = IndexTransform(@, w2.sms.idxItem),
                !.task.pc = "idxRotate",
                !.h.rotations = @ + 1]

\* Rotate without line 387: the new shard gets no byteLimit.
Rotate_NoByteLimit(w) ==
  LET c == w.sms.currentSitemap
      w1 == IF ~Cur(w).destroyed
            THEN [w EXCEPT !.shards[c] = EndCurrent(@, 0)] ELSE w
      w2 == GetSitemapStream(w1, w1.sms.sitemapCount)
      n == w2.sms.currentSitemap
  IN [w2 EXCEPT !.shards[n] = OnError(SetCountLimit(@, w2.sms.countLimit)),
                !.index = IndexTransform(@, w2.sms.idxItem),
                !.task.pc = "idxRotate",
                !.h.rotations = @ + 1]

\* Rotate returning to the shard it rotates away from.
Rotate_KeepCurrent(w) ==
  LET c == w.sms.currentSitemap
      w1 == IF ~Cur(w).destroyed
            THEN [w EXCEPT !.shards[c] = EndCurrent(@, 0)] ELSE w
      w2 == [GetSitemapStream(w1, w1.sms.sitemapCount) EXCEPT
               !.sms.currentSitemap = c]
      n == Len(w2.shards)
  IN [w2 EXCEPT !.shards[n] =
                   OnError(ShardSetLimits(@, w2.sms.byteLimit, w2.sms.countLimit)),
                !.index = IndexTransform(@, w2.sms.idxItem),
                !.task.pc = "idxRotate",
                !.h.rotations = @ + 1]

\* The rotation branch up to its await at line 415 (lines 354-415).  A
\* limit error destroys the shard, so the guarded end() and the wait for
\* the shard's finish at lines 367-370 are passed over; were the shard not
\* destroyed, it is ended here.  The factory may throw, and so may the
\* setters of lines 387-388: the exception leaves the inner catch block
\* and reaches the outer one.
Rotate(w) ==
  LET c == w.sms.currentSitemap
      w1 == IF ~Cur(w).destroyed
            THEN [w EXCEPT !.shards[c] = EndCurrent(@, 0)] ELSE w
      w2 == GetSitemapStream(w1, w1.sms.sitemapCount)
      n == w2.sms.currentSitemap
      w3 == [w2 EXCEPT !.shards[n] = SetByteLimit(@, w2.sms.byteLimit)]
  IN IF w1.env.factory = "throws"
     THEN OuterCatch([w1 EXCEPT
            !.h.factoryCalls = Append(@, w1.sms.sitemapCount),
            !.env.factory = "fresh"])
     ELSE IF SetByteLimitThrows(w2.shards[n]) THEN OuterCatch(w2)
     ELSE IF SetCountLimitThrows(w3.shards[n]) THEN OuterCatch(w3)
     ELSE [w3 EXCEPT !.shards[n] = OnError(SetCountLimit(@, w3.sms.countLimit)),
                     !.index = IndexTransform(@, w3.sms.idxItem),
                     !.task.pc = "idxRotate",
                     !.h.rotations = @ + 1]

\* AfterWrite without line 332: the first item's shard gets no entry.
AfterWrite_NoFirstEntry(w, syncFinal) ==
  LET r == w.task.res IN
  IF r = "ok" THEN Success(w, syncFinal)
  ELSE IF IsLimitError(r) THEN Rotate(w)
  ELSE IF IsWriteAfterTerminal(r) THEN
    IF w.sms.currentSitemap = w.task.sitemapAtStart
    THEN Finally(CallbackErr(w, "TypeError"))
    ELSE LoopWrite([w EXCEPT !.h.retries = @ + 1])
  ELSE Finally(CallbackErr(w, r))

\* AfterWrite calling back before it writes the first shard's entry.
AfterWrite_CallbackBeforeEntry(w, syncFinal) ==
  LET r == w.task.res IN
  IF r = "ok" THEN
    IF w.sms.itemCountTotal = 1
    THEN [Success(w, syncFinal) EXCEPT
            !.index = IndexTransform(@, w.sms.idxItem)]
    ELSE Success(w, syncFinal)
  ELSE IF IsLimitError(r) THEN Rotate(w)
  ELSE IF IsWriteAfterTerminal(r) THEN
    IF w.sms.currentSitemap = w.task.sitemapAtStart
    THEN Finally(CallbackErr(w, "TypeError"))
    ELSE LoopWrite([w EXCEPT !.h.retries = @ + 1])
  ELSE Finally(CallbackErr(w, r))

\* AfterWrite rotating on every error that is not a write-after-end error.
AfterWrite_RotateOnAnyError(w, syncFinal) ==
  LET r == w.task.res IN
  IF r = "ok" THEN
    IF w.sms.itemCountTotal = 1
    THEN [w EXCEPT !.index = IndexTransform(@, w.sms.idxItem),
                   !.task.pc = "idxFirst"]
    ELSE Success(w, syncFinal)
  ELSE IF IsWriteAfterTerminal(r) THEN
    IF w.sms.currentSitemap = w.task.sitemapAtStart
    THEN Finally(CallbackErr(w, "TypeError"))
    ELSE LoopWrite([w EXCEPT !.h.retries = @ + 1])
  ELSE Rotate(w)

\* AfterWrite rotating on a write-after-end error as on a limit error.
AfterWrite_RotateOnTerminal(w, syncFinal) ==
  LET r == w.task.res IN
  IF r = "ok" THEN
    IF w.sms.itemCountTotal = 1
    THEN [w EXCEPT !.index = IndexTransform(@, w.sms.idxItem),
                   !.task.pc = "idxFirst"]
    ELSE Success(w, syncFinal)
  ELSE IF IsLimitError(r) \/ IsWriteAfterTerminal(r) THEN Rotate(w)
  ELSE Finally(CallbackErr(w, r))

\* The resumption of `await this.currentSitemap.writeAsync` (lines 328,
\* 334) and the catch block (lines 352-459)
AfterWrite(w, syncFinal) ==
  LET r == w.task.res IN
  IF r = "ok" THEN
    IF w.sms.itemCountTotal = 1
    THEN [w EXCEPT !.index = IndexTransform(@, w.sms.idxItem),
                   !.task.pc = "idxFirst"]
    ELSE Success(w, syncFinal)
  ELSE IF IsLimitError(r) THEN Rotate(w)
  ELSE IF IsWriteAfterTerminal(r) THEN
    IF w.sms.currentSitemap = w.task.sitemapAtStart
    THEN Finally(CallbackErr(w, "TypeError"))
    ELSE LoopWrite([w EXCEPT !.h.retries = @ + 1])
  ELSE Finally(CallbackErr(w, r))

\* AfterIdxRotate calling back before it loops: the next item enters
\* _transform while this one is still to be written to the new shard.
AfterIdxRotate_CallbackFirst(w) ==
  LET w1 == CallbackOk([w EXCEPT !.sms.sitemapCount = @ + 1], FALSE)
      c == w1.sms.currentSitemap
  IN [w1 EXCEPT !.shards[c] = ShardWrite(@, w.task.item),
                !.h.attempts = Append(@, w.task.item.id)]

\* AfterIdxRotate calling back instead of looping: the item is not retried.
AfterIdxRotate_NoRetry(w) == Success([w EXCEPT !.sms.sitemapCount = @ + 1], FALSE)

\* The resumption of the await at line 415: lines 427-430, then the loop
AfterIdxRotate(w) == LoopWrite([w EXCEPT !.sms.sitemapCount = @ + 1])

----------------------------------------------------------------------------
(* The initial state: new SitemapAndIndexStream(opts) (lines 180-208)      *)

Constructor(c, b, pipe) ==
  /\ sms = [ itemCountTotal |-> 0, pendingWrites |-> 0,
             pendingFlushCallbacks |-> 0, sitemapCount |-> 0,
             hasPipeline |-> pipe, idxItem |-> StringItem(0),
             currentSitemap |-> 1, countLimit |-> c, byteLimit |-> b ]
  /\ shards = <<OnError(ShardSetLimits(NewShard(0, pipe), b, c))>>
  /\ index = NewIndex(FALSE, FALSE)
  /\ stream = [ inbuf |-> <<>>, writing |-> FALSE, ending |-> FALSE,
                finalCalled |-> FALSE, flushCbCalls |-> 0, errored |-> FALSE ]
  /\ task = IdleTask
  /\ h = [ written |-> 0, accepted |-> <<>>, failed |-> <<>>,
           rotations |-> 0, byteHit |-> FALSE, factoryCalls |-> <<0>>,
           attempts |-> <<>>, entriesAtCallback |-> <<>>,
           targets |-> <<>>, retries |-> 0, shardErrors |-> {},
           flushAt |-> {}, flushQueue |-> {}, queued |-> FALSE,
           onFinishAt |-> {} ]
  /\ env = [ factory |-> "fresh", faults |-> 0 ]

\* An option is {} when absent and {n} when given.
Given(o) == CHOOSE n \in o : TRUE

Options(l, c, b) == [limit |-> l, countLimit |-> c, byteLimit |-> b]

\* EffectiveCountLimit with countLimit ahead of the deprecated limit.
EffectiveCountLimit_CountFirst(o) ==
  IF o.countLimit # {} THEN Given(o.countLimit)
  ELSE IF o.limit # {} THEN Given(o.limit)
  ELSE DefaultCountLimit

\* opts.limit ?? opts.countLimit ?? 45000 (line 204)
EffectiveCountLimit(o) ==
  IF o.limit # {} THEN Given(o.limit)
  ELSE IF o.countLimit # {} THEN Given(o.countLimit)
  ELSE DefaultCountLimit

\* opts.byteLimit ?? 45 * 1024 * 1024 (line 205)
EffectiveByteLimit(o) ==
  IF o.byteLimit # {} THEN Given(o.byteLimit) ELSE DefaultByteLimit

\* new SitemapAndIndexStream(o)
New(o, pipe) ==
  /\ opts = o
  /\ Constructor(EffectiveCountLimit(o), EffectiveByteLimit(o), pipe)

\* new SitemapIndexStream({lastmodDateOnly, xslUrl}); prev is the stream
\* before the last write or end, res what that call reported, late the
\* writes made after end()
NewSmis(d, x) ==
  [ ix |-> NewIndex(d, x), ending |-> FALSE,
    prev |-> NewIndex(d, x), op |-> "new", res |-> "ok", late |-> 0 ]

\* new SitemapStream({countLimit, byteLimit}); nothing has been asked of it
NewSm(c, b) ==
  [ s |-> [NewShard(0, FALSE) EXCEPT !.countLimit = c, !.byteLimit = b],
    prev |-> [NewShard(0, FALSE) EXCEPT !.countLimit = c, !.byteLimit = b],
    op |-> "new", arg |-> 0, res |-> "ok", ops |-> 0 ]

Init ==
  /\ \E c \in CountLimits, b \in ByteLimits, pipe \in BOOLEAN :
       New(Options({}, {c}, IF b = DefaultByteLimit THEN {} ELSE {b}), pipe)
  /\ smis = NewSmis(FALSE, FALSE)
  /\ sm = NewSm({}, {})

----------------------------------------------------------------------------
(* Actions of the orchestrator *)

\* The producer calls write(item): _transform runs at once when no write
\* is in progress, else Node buffers the item.
Write ==
  /\ ~stream.ending /\ ~stream.errored
  /\ h.written < MaxItems
  /\ \E len \in ItemLens :
       LET item == [id |-> h.written + 1, len |-> len, bad |-> FALSE]
           w == [World EXCEPT !.h.written = @ + 1]
       IN IF stream.writing
          THEN Commit([w EXCEPT !.stream.inbuf = Append(@, item)])
          ELSE Commit(TransformStart(w, item))
  /\ UNCHANGED <<smis, sm, opts>>

\* The producer calls end().
End ==
  /\ ~stream.ending /\ ~stream.errored
  /\ Commit([World EXCEPT !.stream.ending = TRUE])
  /\ UNCHANGED <<smis, sm, opts>>

\* Node calls _flush once every write has been called back.
Final ==
  /\ stream.ending /\ ~stream.finalCalled /\ ~stream.errored
  /\ ~stream.writing /\ stream.inbuf = <<>>
  /\ Commit(Flush([World EXCEPT !.stream.finalCalled = TRUE]))
  /\ UNCHANGED <<smis, sm, opts>>

\* The await of writeAsync resumes.  A rotation needs a factory call,
\* which the model allows MaxShards times.
ResumeWrite ==
  /\ task.pc = "write"
  /\ IsLimitError(task.res) => Len(shards) < MaxShards
  /\ IsWriteAfterTerminal(task.res) => h.retries < MaxRetries
  /\ \E syncFinal \in BOOLEAN : Commit(AfterWrite(World, syncFinal))
  /\ UNCHANGED <<smis, sm, opts>>

\* The await at line 332 resumes: the first item is called back.
ResumeIdxFirst ==
  /\ task.pc = "idxFirst"
  /\ \E syncFinal \in BOOLEAN : Commit(Success(World, syncFinal))
  /\ UNCHANGED <<smis, sm, opts>>

\* The await at line 415 resumes.
ResumeIdxRotate ==
  /\ task.pc = "idxRotate"
  /\ Commit(AfterIdxRotate(World))
  /\ UNCHANGED <<smis, sm, opts>>

\* A shard that was ended finishes: the callbacks given to end() run.
ShardFinish ==
  /\ \E s \in 1..Len(shards) :
       /\ shards[s].ending /\ ~shards[s].finished
       /\ Commit(RunCallbacks(
            [World EXCEPT !.shards[s].finished = TRUE, !.shards[s].endCbs = <<>>],
            shards[s].endCbs))
  /\ UNCHANGED <<smis, sm, opts>>

\* A callback given to end() of a finished or destroyed shard runs.
ShardEndTick ==
  /\ \E s \in 1..Len(shards) :
       /\ shards[s].lateCbs # <<>>
       /\ Commit(OnFinish([World EXCEPT !.shards[s].lateCbs = Tail(@)],
                          Head(shards[s].lateCbs)))
  /\ UNCHANGED <<smis, sm, opts>>

\* The sink of a closed shard reports 'finish': its listeners run.
SinkFinish ==
  /\ \E s \in 1..Len(shards) :
       /\ shards[s].hasSink /\ ~shards[s].sinkFinished
       /\ shards[s].finished \/ shards[s].destroyed
       /\ Commit(RunCallbacks([World EXCEPT !.shards[s].sinkFinished = TRUE],
                              shards[s].sinkListeners))
  /\ UNCHANGED <<smis, sm, opts>>

Next ==
  \/ Write
  \/ End
  \/ Final
  \/ ResumeWrite
  \/ ResumeIdxFirst
  \/ ResumeIdxRotate
  \/ ShardFinish
  \/ ShardEndTick
  \/ SinkFinish

Spec == Init /\ [][Next]_vars

----------------------------------------------------------------------------
(* The orchestrator with a caller that misbehaves: the branches of the     *)
(* catch block at lines 431-459 and the outer catch at lines 461-472 are   *)
(* reached only then.                                                      *)

\* The caller, who built the shard in its factory, ends the current one.
CallerEndsShard ==
  /\ env.faults < MaxFaults
  /\ ~shards[sms.currentSitemap].ending /\ ~shards[sms.currentSitemap].destroyed
  /\ Commit([World EXCEPT !.shards[sms.currentSitemap] = ShardEnd(@, 0),
                          !.env.faults = @ + 1])
  /\ UNCHANGED <<smis, sm, opts>>

\* The factory call a rotation is about to make will throw, or will return
\* a SitemapStream whose countLimit is set already.
FactoryFault ==
  /\ env.faults < MaxFaults /\ env.factory = "fresh"
  /\ task.pc = "write" /\ IsLimitError(task.res)
  /\ \E f \in {"throws", "preset"} :
       Commit([World EXCEPT !.env.factory = f, !.env.faults = @ + 1])
  /\ UNCHANGED <<smis, sm, opts>>

\* The producer writes an item of 45 bytes, or one the shard's validation
\* rejects.
WriteAny ==
  /\ ~stream.ending /\ ~stream.errored
  /\ h.written < MaxFaultItems
  /\ \E bad \in BOOLEAN :
       /\ bad => env.faults < MaxFaults
       /\ LET item == [id |-> h.written + 1, len |-> 45, bad |-> bad]
              w == [World EXCEPT !.h.written = @ + 1,
                                 !.env.faults = IF bad THEN @ + 1 ELSE @]
          IN IF stream.writing
             THEN Commit([w EXCEPT !.stream.inbuf = Append(@, item)])
             ELSE Commit(TransformStart(w, item))
  /\ UNCHANGED <<smis, sm, opts>>

NextFaults ==
  \/ WriteAny
  \/ End
  \/ Final
  \/ ResumeWrite
  \/ ResumeIdxFirst
  \/ ResumeIdxRotate
  \/ ShardFinish
  \/ ShardEndTick
  \/ SinkFinish
  \/ CallerEndsShard
  \/ FactoryFault

SpecFaults == Init /\ [][NextFaults]_vars

----------------------------------------------------------------------------
(* The orchestrator constructed with any of the options that set its       *)
(* limits, then written to.                                                *)

\* opts.limit, opts.countLimit: absent, or 0 and up
OptionCountLimits == {{}} \cup {{n} : n \in 0..MaxCountLimit}
\* opts.byteLimit: absent, or as in the tests
OptionByteLimits == {{}, {400}, {430}}

InitOptions ==
  /\ \E l \in OptionCountLimits, c \in OptionCountLimits,
        b \in OptionByteLimits :
       New(Options(l, c, b), TRUE)
  /\ smis = NewSmis(FALSE, FALSE)
  /\ sm = NewSm({}, {})

NextOptions ==
  \/ Write
  \/ ResumeWrite
  \/ ResumeIdxFirst
  \/ ResumeIdxRotate

SpecOptions == InitOptions /\ [][NextOptions]_vars

----------------------------------------------------------------------------
(* The stand-alone SitemapIndexStream of the tests (index tests, 31-152):  *)
(* writes, then end().                                                     *)

IndexUrls == {1, 2}
IndexLastmods == {<<>>, <<1>>, <<1, 5>>}
IndexItems ==
  {StringItem(u) : u \in IndexUrls}
    \cup {[str |-> FALSE, url |-> u, lastmod |-> l] :
            u \in IndexUrls, l \in IndexLastmods}

InitIndex ==
  /\ New(Options({}, {1}, {400}), TRUE)
  /\ \E d \in BOOLEAN, x \in BOOLEAN : smis = NewSmis(d, x)
  /\ sm = NewSm({}, {})

\* smis.write(item): _transform (lines 52-82)
IndexWrite ==
  /\ ~smis.ending
  /\ Len(SelectT(smis.ix.out, "loc")) < MaxIndexWrites
  /\ \E item \in IndexItems :
       smis' = [smis EXCEPT !.ix = IndexTransform(@, item),
                            !.prev = smis.ix, !.op = "write", !.res = "ok"]
  /\ UNCHANGED <<sms, index, shards, stream, task, h, sm, opts, env>>

\* smis.end(): _flush (lines 84-87)
IndexEnd ==
  /\ ~smis.ending
  /\ smis' = [smis EXCEPT !.ix = IndexFlush(@), !.ending = TRUE,
                          !.prev = smis.ix, !.op = "end", !.res = "ok"]
  /\ UNCHANGED <<sms, index, shards, stream, task, h, sm, opts, env>>

\* smis.write(item) after end(): Node's Writable reports 'write after
\* end' and does not call _transform (index tests, lines 75-77).
IndexWriteAfterEnd ==
  /\ smis.ending
  /\ smis.late < MaxLateWrites
  /\ smis' = [smis EXCEPT !.prev = smis.ix, !.op = "write",
                          !.res = "ERR_STREAM_WRITE_AFTER_END",
                          !.late = @ + 1]
  /\ UNCHANGED <<sms, index, shards, stream, task, h, sm, opts, env>>

NextIndex ==
  \/ IndexWrite
  \/ IndexEnd
  \/ IndexWriteAfterEnd

SpecIndex == InitIndex /\ [][NextIndex]_vars

----------------------------------------------------------------------------
(* The stand-alone SitemapStream of the tests (tests of sitemap-stream):   *)
(* writes, end() and assignments to its limits, in any order.  sm.prev is  *)
(* the stream before the last operation, sm.res what the operation         *)
(* reported to its caller.                                                 *)

StreamCountLimits == {1, 2}
StreamByteLimits == {400, 430}

InitStream ==
  /\ New(Options({}, {1}, {400}), TRUE)
  /\ smis = NewSmis(FALSE, FALSE)
  /\ \E c \in {{}} \cup {{n} : n \in StreamCountLimits},
        b \in {{}} \cup {{n} : n \in StreamByteLimits} : sm = NewSm(c, b)

\* await sm.writeAsync(item)
StreamWrite ==
  /\ sm.ops < MaxStreamOps
  /\ \E len \in ItemLens :
       LET item == [id |-> sm.ops + 1, len |-> len, bad |-> FALSE] IN
       sm' = [ s |-> ShardWrite(sm.s, item), prev |-> sm.s,
               op |-> "write", arg |-> len,
               res |-> WriteResult(sm.s, item), ops |-> sm.ops + 1 ]
  /\ UNCHANGED <<sms, index, shards, stream, task, h, smis, opts, env>>

\* sm.end()
StreamEnd ==
  /\ sm.ops < MaxStreamOps
  /\ sm' = [ s |-> ShardEnd(sm.s, 0), prev |-> sm.s,
              op |-> "end", arg |-> 0, res |-> "ok", ops |-> sm.ops + 1 ]
  /\ UNCHANGED <<sms, index, shards, stream, task, h, smis, opts, env>>

\* sm.countLimit = v
StreamSetCountLimit ==
  /\ sm.ops < MaxStreamOps
  /\ \E v \in StreamCountLimits :
       sm' = [ s |-> SetCountLimit(sm.s, v), prev |-> sm.s,
               op |-> "setCountLimit", arg |-> v,
               res |-> IF SetCountLimitThrows(sm.s) THEN "ConfigError" ELSE "ok",
               ops |-> sm.ops + 1 ]
  /\ UNCHANGED <<sms, index, shards, stream, task, h, smis, opts, env>>

\* sm.byteLimit = v
StreamSetByteLimit ==
  /\ sm.ops < MaxStreamOps
  /\ \E v \in StreamByteLimits :
       sm' = [ s |-> SetByteLimit(sm.s, v), prev |-> sm.s,
               op |-> "setByteLimit", arg |-> v,
               res |-> IF SetByteLimitThrows(sm.s) THEN "ConfigError" ELSE "ok",
               ops |-> sm.ops + 1 ]
  /\ UNCHANGED <<sms, index, shards, stream, task, h, smis, opts, env>>

NextStream ==
  \/ StreamWrite
  \/ StreamEnd
  \/ StreamSetCountLimit
  \/ StreamSetByteLimit

SpecStream == InitStream /\ [][NextStream]_vars

(* Either stand-alone writer: a run drives one of the two, which share     *)
(* nothing, and leaves the other as constructed.                           *)
InitWriters ==
  /\ New(Options({}, {1}, {400}), TRUE)
  /\ \E d \in BOOLEAN, x \in BOOLEAN : smis = NewSmis(d, x)
  /\ \E c \in {{}} \cup {{n} : n \in StreamCountLimits},
        b \in {{}} \cup {{n} : n \in StreamByteLimits} : sm = NewSm(c, b)

NextWriters ==
  \/ smis.op = "new" /\ NextStream
  \/ sm.op = "new" /\ NextIndex

SpecWriters == InitWriters /\ [][NextWriters]_vars

----------------------------------------------------------------------------
(* Notions the claims use *)

Positions(a, b) == [i \in 1..(IF b >= a THEN b - a + 1 ELSE 0) |-> a + i - 1]

Min(a, b) == IF a <= b THEN a ELSE b
Ceil(n, c) == (n + c - 1) \div c

RECURSIVE ConcatItems(_)
ConcatItems(ss) ==
  IF ss = <<>> THEN <<>> ELSE ShardItems(Head(ss)) \o ConcatItems(Tail(ss))

\* end() was called and every item written has been called back
AllProcessed ==
  /\ stream.ending /\ ~stream.writing /\ stream.inbuf = <<>>
  /\ ~stream.errored

\* shard k holds exactly the input positions (k-1)*C+1 .. min(k*C, N)
ShardHoldsRange(k) ==
  ShardItems(shards[k]) =
    Positions((k - 1) * sms.countLimit + 1, Min(k * sms.countLimit, h.written))

NonEmptyShards == SelectSeq(shards, LAMBDA sh : sh.itemCount > 0)

CountT(seq, t) == Len(SelectT(seq, t))

\* an item fits a shard that holds nothing else
Fits(item) == PreambleLen + CloseTagLen + item.len <= sms.byteLimit

\* every item not yet committed fits an empty shard (the committed ones did)
AllFit ==
  /\ task.pc # "idle" => Fits(task.item)
  /\ \A i \in 1..Len(stream.inbuf) : Fits(stream.inbuf[i])

----------------------------------------------------------------------------
(* C1 *)

\* C1, as stated: after N items and end(), with the byte limit never hit,
\* there are ceil(N/C) shards and shard k holds the input positions
\* (k-1)*C up to, not including, k*C.
C1_Original ==
  (AllProcessed /\ ~h.byteHit) =>
     /\ Len(shards) = Ceil(h.written, sms.countLimit)
     /\ \A k \in 1..Len(shards) : ShardHoldsRange(k)

\* C1, amended: the same for N >= 1; with N = 0 the one shard the
\* constructor obtained exists and is empty.
C1_ShardsByCount ==
  (AllProcessed /\ ~h.byteHit) =>
     /\ Len(shards) = (IF h.written = 0 THEN 1
                       ELSE Ceil(h.written, sms.countLimit))
     /\ \A k \in 1..Len(shards) : ShardHoldsRange(k)

C1_Witness ==
  /\ AllProcessed /\ ~h.byteHit
  /\ h.written = 3 /\ sms.countLimit = 2
  /\ Len(shards) = 2
  /\ ShardItems(shards[1]) = <<1, 2>> /\ ShardItems(shards[2]) = <<3>>

----------------------------------------------------------------------------
(* C2 *)

----------------------------------------------------------------------------
(* C3 *)

\* C3: the items of shard 0, shard 1, ... concatenated are the input
\* positions 1, 2, ... in order: they include every item called back with
\* success, at most the one item in progress beyond those, and once all is
\* processed they are the whole input.
C3_OrderPreserved ==
  LET all == ConcatItems(shards) IN
  /\ all = Positions(1, Len(all))
  /\ h.accepted = Positions(1, Len(h.accepted))
  /\ Len(h.accepted) <= Len(all)
  /\ Len(all) <= Len(h.accepted) + 1
  /\ AllProcessed => all = Positions(1, h.written)

C3_Witness ==
  /\ AllProcessed
  /\ h.written = 3 /\ Len(shards) = 3
  /\ ConcatItems(shards) = <<1, 2, 3>>

----------------------------------------------------------------------------
(* C4 *)

\* C4: once _flush has been called (end-of-input reached the orchestrator)
\* the index holds one entry for each shard that received an item, in the
\* order the shards were created, and none for an empty shard.
C4_IndexEntries ==
  stream.finalCalled =>
     /\ Locs(index) = [i \in 1..Len(NonEmptyShards) |-> NonEmptyShards[i].ord]
     /\ \A i, j \in 1..Len(shards) : shards[i].ord = shards[j].ord => i = j

C4_Witness ==
  /\ stream.finalCalled
  /\ Locs(index) = <<0, 1>>
  /\ Len(shards) = 2

----------------------------------------------------------------------------
(* C5 *)

\* Nothing is left to run for the end-of-input: _flush was called, no
\* item is in flight, every ended shard has finished, its sink has
\* finished and every callback given to end() has run.
Drained ==
  /\ stream.finalCalled
  /\ sms.pendingWrites = 0 /\ task.pc = "idle"
  /\ \A s \in 1..Len(shards) :
       /\ shards[s].ending => shards[s].finished
       /\ shards[s].lateCbs = <<>>
       /\ (shards[s].hasSink /\ shards[s].finished) => shards[s].sinkFinished

\* C5, as stated: after end(), once no item is in flight and the current
\* shard's sink has completed, the index closing tag has been emitted
\* exactly once and the flush callback invoked exactly once.
C5_Original ==
  Drained => /\ CountT(index.out, "close") = 1
             /\ stream.flushCbCalls = 1

\* What the code does instead: onFinish calls this._flush, which queues the
\* callback again; the closing tag of the index is never pushed and the
\* flush callback never invoked.
IndexNeverClosed ==
  /\ CountT(index.out, "close") = 0
  /\ stream.flushCbCalls = 0

----------------------------------------------------------------------------
(* C6 *)

\* C6, as stated: one item's processing rotates (ends the shard, calls the
\* factory) at most once.
C6_Original == h.rotations <= 1

----------------------------------------------------------------------------
(* C7 *)

\* C7, as stated, in the runs where every item fits an empty shard: when
\* the factory has been called for the next shard, the shard before it has
\* been ended and its sink has reported completion.
C7_Original ==
  AllFit =>
    \A s \in 1..Len(shards) :
       s # sms.currentSitemap =>
          /\ shards[s].wroteCloseTag
          /\ shards[s].hasSink => shards[s].sinkFinished

\* The part of C7 the code keeps: only the current shard is ever open.
C7_OneOpenWriter ==
  \A s \in 1..Len(shards) :
     s # sms.currentSitemap => shards[s].wroteCloseTag /\ shards[s].destroyed

----------------------------------------------------------------------------
(* C8 *)

ShardOfOrd(o) == CHOOSE s \in 1..Len(shards) : shards[s].ord = o

\* C8, as stated, in the runs where every item fits an empty shard: an
\* index entry is never written while its shard is empty, and never twice
\* for one shard.
C8_Original ==
  AllFit =>
    /\ \A i \in 1..Len(Locs(index)) :
         shards[ShardOfOrd(Locs(index)[i])].itemCount >= 1
    /\ \A i, j \in 1..Len(Locs(index)) :
         Locs(index)[i] = Locs(index)[j] => i = j

----------------------------------------------------------------------------
(* C9 *)

\* C9: the document of a shard that accepted an item is the preamble once,
\* first; then the accepted items; and, once the shard was closed by
\* end() or by a limit error, the closing tag once, last.
C9_ShardDocument ==
  \A s \in 1..Len(shards) :
     LET sh == shards[s] IN
     sh.itemCount >= 1 =>
        /\ sh.out[1].t = "pre"
        /\ CountT(sh.out, "pre") = 1
        /\ CountT(sh.out, "url") = sh.itemCount
        /\ (sh.ending \/ sh.destroyed) <=> sh.wroteCloseTag
        /\ CountT(sh.out, "close") = (IF sh.wroteCloseTag THEN 1 ELSE 0)
        /\ sh.wroteCloseTag => Last(sh.out).t = "close"

\* a shard closed by a limit error and a shard closed by end(), each
\* holding items
C9_Witness ==
  /\ \E s \in 1..Len(shards) :
       shards[s].itemCount >= 1 /\ shards[s].destroyed
  /\ \E s \in 1..Len(shards) :
       shards[s].itemCount >= 1 /\ shards[s].ending /\ shards[s].finished

----------------------------------------------------------------------------
(* C10 (checked under SpecIndex) *)

EntryTags(ix) ==
  SelectSeq(ix.out, LAMBDA c : c.t \in {"head", "loc", "close"})

\* C10, as stated: after k >= 0 writes and end(), the output is the head
\* (declaration and root tag) once, first; k entries; one closing tag, last.
C10_Original ==
  smis.ending =>
     /\ Len(smis.ix.out) >= 2
     /\ smis.ix.out[1].t = "head"
     /\ CountT(smis.ix.out, "head") = 1
     /\ CountT(smis.ix.out, "close") = 1
     /\ Last(smis.ix.out).t = "close"
     /\ CountT(smis.ix.out, "loc") = CountT(smis.ix.out, "otag")
     /\ CountT(smis.ix.out, "loc") = CountT(smis.ix.out, "ctag")

\* What holds: the same whenever at least one entry was written.
C10_NonEmptyIndex ==
  (smis.ending /\ CountT(smis.ix.out, "loc") >= 1) =>
     /\ smis.ix.out[1].t = "head"
     /\ CountT(smis.ix.out, "head") = 1
     /\ CountT(smis.ix.out, "close") = 1
     /\ Last(smis.ix.out).t = "close"

----------------------------------------------------------------------------
(* C11 *)

\* the ordinals the factory was called with are those listed in the index
FactoryCallsListed == h.factoryCalls = Locs(index)

\* C11, as stated: after end-of-input the factory has been called only for
\* shards that received an item, and no shard exists beyond those the
\* index lists.
C11_Original ==
  AllProcessed =>
     /\ \A s \in 1..Len(shards) : shards[s].itemCount >= 1
     /\ FactoryCallsListed

\* C11, amended: the same once at least one item was written; with none
\* written the one shard the constructor obtained exists, empty and unlisted.
C11_FactoryCalls ==
  AllProcessed =>
     IF h.written >= 1
     THEN /\ \A s \in 1..Len(shards) : shards[s].itemCount >= 1
          /\ FactoryCallsListed
          /\ Len(shards) = Len(h.factoryCalls)
     ELSE /\ h.factoryCalls = <<0>> /\ Len(shards) = 1
          /\ shards[1].itemCount = 0
          /\ Locs(index) = <<>>

\* countLimit 1 and 4 items: shards 0..3, and no shard 4
C11_Witness ==
  /\ AllProcessed /\ stream.finalCalled
  /\ sms.countLimit = 1 /\ h.written = 4
  /\ h.factoryCalls = <<0, 1, 2, 3>>
  /\ Locs(index) = <<0, 1, 2, 3>>

----------------------------------------------------------------------------
(* C12 (checked under SpecStream) *)

\* C12: assigning countLimit (byteLimit) when it is set already, or after
\* an item was written, throws and leaves the stream as it was; assigning
\* it while unset and before any write succeeds, and the value is visible.
C12_LimitSetters ==
  /\ sm.op = "setCountLimit" =>
        IF sm.prev.countLimit # {} \/ sm.prev.itemCount > 0
        THEN sm.res = "ConfigError" /\ sm.s = sm.prev
        ELSE /\ sm.res = "ok" /\ sm.s.countLimit = {sm.arg}
             /\ sm.s = [sm.prev EXCEPT !.countLimit = {sm.arg}]
  /\ sm.op = "setByteLimit" =>
        IF sm.prev.byteLimit # {} \/ sm.prev.itemCount > 0
        THEN sm.res = "ConfigError" /\ sm.s = sm.prev
        ELSE /\ sm.res = "ok" /\ sm.s.byteLimit = {sm.arg}
             /\ sm.s = [sm.prev EXCEPT !.byteLimit = {sm.arg}]

\* countLimit assigned a second time after byteLimit was assigned freely
C12_Witness ==
  /\ sm.op = "setCountLimit" /\ sm.res = "ConfigError"
  /\ sm.s.countLimit = {1} /\ sm.arg = 2
  /\ sm.s.byteLimit = {400} /\ sm.s.itemCount = 0

----------------------------------------------------------------------------
(* C13 (checked under SpecWriters) *)

\* C13: a write to a SitemapStream or to a SitemapIndexStream that has
\* emitted its closing tag is rejected with a write-after-end error and
\* leaves the output and the counters as they were, however many times it
\* is tried.
C13_WriteAfterClose ==
  /\ (sm.op = "write" /\ sm.prev.wroteCloseTag) =>
        /\ sm.res \in {"ERR_STREAM_WRITE_AFTER_END", "ERR_STREAM_DESTROYED",
                       "WriteAfterCloseTagError"}
        /\ sm.s = sm.prev
  /\ (smis.op = "write" /\ CountT(smis.prev.out, "close") >= 1) =>
        /\ smis.res = "ERR_STREAM_WRITE_AFTER_END"
        /\ smis.ix = smis.prev

\* the second write to an index stream that was ended after two entries
C13_Witness ==
  /\ smis.op = "write" /\ smis.late = 2
  /\ smis.res = "ERR_STREAM_WRITE_AFTER_END"
  /\ CountT(smis.prev.out, "close") = 1
  /\ CountT(smis.ix.out, "loc") = 2

----------------------------------------------------------------------------
(* C14 (checked under SpecStream) *)

\* C14: a write rejected with ByteLimitExceededError or
\* CountLimitExceededError commits nothing of the item (itemCount as
\* before, no <url> added), emits the closing tag, sets wroteCloseTag and
\* destroys the stream.
C14_LimitRejection ==
  (sm.op = "write" /\ IsLimitError(sm.res)) =>
     /\ sm.s.itemCount = sm.prev.itemCount
     /\ sm.ops \notin Range(ShardItems(sm.s))
     /\ sm.s.out = Append(sm.prev.out, CloseChunk)
     /\ CountT(sm.s.out, "close") = 1
     /\ sm.s.wroteCloseTag /\ sm.s.destroyed
     /\ ~sm.prev.wroteCloseTag /\ ~sm.prev.destroyed

\* the test at lines 337-392: byteLimit 400, the second item rejected
C14_Witness ==
  /\ sm.op = "write" /\ sm.res = "ByteLimitExceededError"
  /\ sm.s.byteLimit = {400} /\ sm.s.itemCount = 1
  /\ [i \in 1..Len(sm.s.out) |-> sm.s.out[i].t] = <<"pre", "url", "close">>
  /\ sm.s.wroteCloseTag /\ sm.s.destroyed

----------------------------------------------------------------------------
(* C15 (checked under SpecStream) *)

\* neither counter is below what it was before the last operation
CountersNeverDecrease ==
  /\ sm.s.byteCount >= sm.prev.byteCount
  /\ sm.s.itemCount >= sm.prev.itemCount

\* C15, as stated: after any writes, limit rejections and end(), byteCount
\* is the number of bytes pushed so far, itemCount the number of accepted
\* items, and neither counter ever decreases.
C15_Original ==
  sm.op \in {"write", "end"} =>
     /\ sm.s.byteCount = BytesEmitted(sm.s)
     /\ sm.s.itemCount = CountT(sm.s.out, "url")
     /\ CountersNeverDecrease

\* C15, amended: once an item was accepted, byteCount is the number of
\* bytes pushed so far plus, while the closing tag is still to come, its
\* length; the two are equal once the closing tag is out.  The rest as
\* stated.
C15_Counters ==
  /\ sm.s.itemCount >= 1 =>
        sm.s.byteCount =
          BytesEmitted(sm.s) + (IF sm.s.wroteCloseTag THEN 0 ELSE CloseTagLen)
  /\ sm.s.itemCount = CountT(sm.s.out, "url")
  /\ CountersNeverDecrease

\* two items accepted and the stream ended: 325 + 45 + 45 + 9 bytes
C15_Witness ==
  /\ sm.op = "end" /\ sm.s.itemCount = 2
  /\ sm.prev.byteCount = 424 /\ BytesEmitted(sm.prev) = 415
  /\ sm.s.byteCount = 424 /\ BytesEmitted(sm.s) = 424

----------------------------------------------------------------------------
(* C16 *)

\* the items whose processing was called back, with success or an error
Completed ==
  Range(h.accepted) \cup {h.failed[i].id : i \in 1..Len(h.failed)}

\* C16: the orchestrator has at most one item between the entry into
\* _transform and its callback.  The write attempts (h.attempts, one per
\* writeAsync on a shard) are in input order; every attempt is of a
\* completed item or of the one item in progress, which is the item after
\* the completed ones; so the first attempt of item i+1 follows the
\* callback of item i and all of item i's rotations and retries.
C16_OneItemAtATime ==
  /\ sms.pendingWrites <= 1
  /\ (task.pc = "idle") <=> ~stream.writing
  /\ \A i, j \in 1..Len(h.attempts) : i < j => h.attempts[i] <= h.attempts[j]
  /\ \A i \in 1..Len(h.attempts) :
        \/ h.attempts[i] \in Completed
        \/ task.pc # "idle" /\ h.attempts[i] = task.item.id
  /\ task.pc # "idle" =>
        /\ task.item.id = Cardinality(Completed) + 1
        /\ task.item.id \notin Completed
        /\ \A i \in 1..Len(stream.inbuf) : stream.inbuf[i].id > task.item.id

\* item 2 was rejected, rotated and retried while item 3 waited; item 3 is
\* attempted after item 2 was called back
C16_Witness ==
  /\ h.attempts = <<1, 2, 2, 3>>
  /\ h.accepted = <<1, 2>>
  /\ task.pc = "write" /\ task.item.id = 3
  /\ Len(shards) = 2

----------------------------------------------------------------------------
(* C17 (checked under SpecOptions) *)

\* C17: the count limit in force is opts.limit when given, else
\* opts.countLimit when given, else 45000; the byte limit in force is
\* opts.byteLimit when given, else 45 * 1024 * 1024.  They are the limits
\* the orchestrator holds and the ones every shard it obtained was given.
C17_EffectiveLimits ==
  LET c == IF opts.limit # {} THEN Given(opts.limit)
           ELSE IF opts.countLimit # {} THEN Given(opts.countLimit)
           ELSE 45000
      b == IF opts.byteLimit # {} THEN Given(opts.byteLimit)
           ELSE 45 * 1024 * 1024
  IN /\ sms.countLimit = c
     /\ sms.byteLimit = b
     /\ \A s \in 1..Len(shards) :
           shards[s].countLimit = {c} /\ shards[s].byteLimit = {b}

\* {limit: 1, countLimit: 2}: the second item is rejected by the first
\* shard, which holds one item; the byte limit is the default
C17_Witness ==
  /\ opts = Options({1}, {2}, {})
  /\ sms.countLimit = 1 /\ sms.byteLimit = 47185920
  /\ Len(shards) = 2
  /\ shards[1].itemCount = 1 /\ shards[2].itemCount = 1

----------------------------------------------------------------------------
(* C18 (checked under SpecStream) *)

\* the stream was neither ended nor destroyed
IsOpen(sh) == ~sh.ending /\ ~sh.destroyed

\* C18: wroteCloseTag is false while the stream is open, and true once
\* end() has returned or a limit rejection has been reported; it never
\* goes back to false.
C18_WroteCloseTag ==
  /\ IsOpen(sm.s) => ~sm.s.wroteCloseTag
  /\ sm.op = "end" => sm.s.wroteCloseTag
  /\ (sm.op = "write" /\ IsLimitError(sm.res)) => sm.s.wroteCloseTag
  /\ ~IsOpen(sm.s) => sm.s.wroteCloseTag
  /\ sm.prev.wroteCloseTag => sm.s.wroteCloseTag

\* the test at lines 190-199: false after the first write, true after end()
C18_Witness ==
  /\ sm.op = "end"
  /\ sm.prev.itemCount = 1 /\ IsOpen(sm.prev) /\ ~sm.prev.wroteCloseTag
  /\ sm.s.wroteCloseTag /\ ~sm.s.destroyed

----------------------------------------------------------------------------
(* C19 (checked under SpecStream) *)

\* byteLimit is set and byteCount + (the preamble length if no item was
\* written yet) + the item's length exceeds it
OverBytes(sh, len) ==
  \E b \in sh.byteLimit :
     sh.byteCount + (IF sh.itemCount = 0 THEN PreambleLen ELSE 0) + len > b

\* countLimit is set and itemCount + 1 exceeds it
OverCount(sh) == \E c \in sh.countLimit : sh.itemCount + 1 > c

\* C19: a write to an open SitemapStream is rejected with
\* ByteLimitExceededError exactly when OverBytes; otherwise with
\* CountLimitExceededError exactly when OverCount; otherwise it is
\* accepted.  With both, the byte error is the one reported.
C19_WriteOutcome ==
  (sm.op = "write" /\ IsOpen(sm.prev)) =>
     /\ sm.res = "ByteLimitExceededError" <=> OverBytes(sm.prev, sm.arg)
     /\ sm.res = "CountLimitExceededError" <=>
           (~OverBytes(sm.prev, sm.arg) /\ OverCount(sm.prev))
     /\ sm.res = "ok" <=> (~OverBytes(sm.prev, sm.arg) /\ ~OverCount(sm.prev))
     /\ sm.res = "ok" =>
           /\ sm.s.itemCount = sm.prev.itemCount + 1
           /\ Last(sm.s.out) = UrlChunk([id |-> sm.ops, len |-> sm.arg])

\* countLimit 1 and byteLimit 400, a second item of 45 bytes: both limits
\* would be exceeded and the byte error is reported
C19_Witness ==
  /\ sm.op = "write" /\ IsOpen(sm.prev)
  /\ sm.prev.itemCount = 1 /\ sm.prev.countLimit = {1}
  /\ sm.prev.byteLimit = {400} /\ sm.prev.byteCount = 379 /\ sm.arg = 45
  /\ sm.res = "ByteLimitExceededError"

----------------------------------------------------------------------------
(* C20 *)

\* C20: when the first item a shard accepted is called back, the shard's
\* entry is in the index already: it is among the entries the index held
\* at that callback (h.entriesAtCallback).
C20_EntryBeforeCallback ==
  \A s \in 1..Len(shards) :
     LET items == ShardItems(shards[s]) IN
     items # <<>> =>
        \A k \in 1..Len(h.accepted) :
           h.accepted[k] = items[1] =>
              \E i \in 1..h.entriesAtCallback[k] :
                 Locs(index)[i] = shards[s].ord

\* countLimit 1: item 1 opens shard 0 and item 2, after a rotation, shard
\* 1; each entry was in the index when its item was called back
C20_Witness ==
  /\ h.accepted = <<1, 2>>
  /\ h.entriesAtCallback = <<1, 2>>
  /\ Locs(index) = <<0, 1>>
  /\ ShardItems(shards[1]) = <<1>> /\ ShardItems(shards[2]) = <<2>>

----------------------------------------------------------------------------
(* Notions for the claims about errors                                     *)

\* The k-th write the orchestrator issued is still awaited.
Awaited(k) == k = Len(h.attempts) /\ task.pc = "write"

\* The k-th write was refused as a write after end by the shard that was
\* current when its item entered _transform.
RefusedAtStart(k) ==
  /\ IsWriteAfterTerminal(h.targets[k].res)
  /\ h.targets[k].to = h.targets[k].start

\* The error the item of the k-th write was called back with, as a set.
FailedWith(k) == {f.error : f \in {g \in Range(h.failed) : g.id = h.attempts[k]}}

(* C21: a write refused as a write after end by the shard that was current *)
(* when the item entered _transform fails the item with a TypeError: the   *)
(* item is called back with that error once the await has resumed, it is   *)
(* written nowhere again, and no shard is obtained from the factory for it.*)
C21_TypeErrorAtStart ==
  \A k \in 1..Len(h.attempts) :
    RefusedAtStart(k) =>
      /\ k = Len(h.attempts)
      /\ Len(shards) = h.targets[k].of
      /\ Len(h.factoryCalls) = h.targets[k].of
      /\ h.attempts[k] \notin Range(h.accepted)
      /\ ~Awaited(k) => FailedWith(k) = {"TypeError"}

\* an item was refused by its start shard and called back with TypeError
C21_Witness ==
  \E k \in 1..Len(h.attempts) :
    /\ RefusedAtStart(k)
    /\ FailedWith(k) = {"TypeError"}
    /\ stream.errored

\* The k-th write failed with an error that is neither a limit error nor
\* a write-after-end error.
OtherError(k) ==
  /\ h.targets[k].res # "ok"
  /\ ~IsLimitError(h.targets[k].res)
  /\ ~IsWriteAfterTerminal(h.targets[k].res)

(* C22: a write that fails with any other error is the item's last: the    *)
(* item is called back with that very error once the await has resumed,    *)
(* and no shard is obtained from the factory after the failed write.       *)
C22_OtherErrorPropagated ==
  \A k \in 1..Len(h.attempts) :
    OtherError(k) =>
      /\ k = Len(h.attempts)
      /\ Len(shards) = h.targets[k].of
      /\ Len(h.factoryCalls) = h.targets[k].of
      /\ h.attempts[k] \notin Range(h.accepted)
      /\ ~Awaited(k) => FailedWith(k) = {h.targets[k].res}

\* an invalid item failed its write and was called back with that error
C22_Witness ==
  \E k \in 1..Len(h.attempts) :
    /\ OtherError(k)
    /\ FailedWith(k) = {"ItemValidationError"}
    /\ stream.errored

(* C23: _flush called while a write is in flight (pendingWrites > 0) only  *)
(* queues its callback: doTheFlush is entered with pendingWrites = 0 only, *)
(* and while a write is in flight the current shard has not been ended.    *)
C23_FlushQueued ==
  /\ h.flushAt \subseteq {0}
  /\ sms.pendingWrites > 0 => ~shards[sms.currentSitemap].ending

\* _flush arrived inside the last item's callback(), before the finally
\* block; doTheFlush then ran from the finally block and ended the shard
C23_Witness ==
  /\ h.queued
  /\ h.flushAt = {0}
  /\ sms.pendingWrites = 0
  /\ shards[sms.currentSitemap].ending

(* C25 as stated: the factory is called with the ordinals 0, 1, 2, ... in  *)
(* turn: the constructor's call has 0 and the k-th rotation's call has k.  *)
C25_Original ==
  \A k \in 1..Len(h.factoryCalls) : h.factoryCalls[k] = k - 1

(* C26: a shard has the orchestrator's byteLimit and countLimit when an    *)
(* item is written to it: every write the orchestrator issued went to a    *)
(* shard carrying both, and so does every shard that holds an item.        *)
C26_LimitsBeforeWrite ==
  /\ \A k \in 1..Len(h.targets) :
       /\ h.targets[k].byteLimit = {sms.byteLimit}
       /\ h.targets[k].countLimit = {sms.countLimit}
  /\ \A s \in 1..Len(shards) :
       shards[s].itemCount > 0 =>
         /\ shards[s].byteLimit = {sms.byteLimit}
         /\ shards[s].countLimit = {sms.countLimit}

\* a shard obtained by a rotation has accepted an item
C26_Witness ==
  \E k \in 1..Len(h.targets) :
    /\ h.targets[k].to > 1
    /\ h.targets[k].res = "ok"
    /\ shards[h.targets[k].to].itemCount > 0

(* C27: every write the orchestrator issues goes to the shard the factory  *)
(* returned last; once a later shard has been written to, no write goes to *)
(* an earlier one.                                                         *)
C27_WritesToLatestShard ==
  /\ \A k \in 1..Len(h.targets) : h.targets[k].to = h.targets[k].of
  /\ \A j, k \in 1..Len(h.targets) :
       j < k => h.targets[j].to <= h.targets[k].to

\* after a rotation, the rejected item and a later item were both written
\* to the new shard
C27_Witness ==
  \E j, k \in 1..Len(h.targets) :
    /\ j < k
    /\ h.targets[j].to = 1 /\ IsLimitError(h.targets[j].res)
    /\ h.targets[k].to = 2
    /\ h.attempts[k] > h.attempts[j]

(* C28: every 'error' a shard emitted met the orchestrator's listener,     *)
(* which absorbed it when it was a byte-limit, count-limit, write-after-   *)
(* closing-tag, write-after-end or stream-destroyed error and threw it     *)
(* again otherwise; every shard written to has the listener registered.    *)
C28_ErrorListener ==
  /\ \A e \in h.shardErrors :
       e.outcome = IF IsLimitError(e.error) \/ IsWriteAfterTerminal(e.error)
                   THEN "absorbed" ELSE "rethrown"
  /\ \A k \in 1..Len(h.targets) : shards[h.targets[k].to].errorListener

\* one shard emitted a limit error, absorbed, and one a validation error,
\* thrown again
C28_Witness ==
  \E a, b \in h.shardErrors :
    /\ IsLimitError(a.error) /\ a.outcome = "absorbed"
    /\ b.error = "ItemValidationError" /\ b.outcome = "rethrown"

\* The k-th write was refused as a write after end by a shard obtained
\* while its item was being processed.
RefusedAfterRotation(k) ==
  /\ IsWriteAfterTerminal(h.targets[k].res)
  /\ h.targets[k].to # h.targets[k].start

\* The write after the k-th is the same item to the same shard, with no
\* factory call and no index entry in between.
ResubmittedInPlace(k) ==
  /\ k < Len(h.attempts)
  /\ h.attempts[k + 1] = h.attempts[k]
  /\ h.targets[k + 1].to = h.targets[k].to
  /\ h.targets[k + 1].of = h.targets[k].of
  /\ h.targets[k + 1].entries = h.targets[k].entries

\* The first half of C29 alone: the refused item is re-submitted in place.
C29_Resubmitted ==
  \A k \in 1..Len(h.attempts) :
    RefusedAfterRotation(k) /\ ~Awaited(k) => ResubmittedInPlace(k)

\* The item in progress waits for a write that its rotated shard refused.
Resubmitting ==
  /\ task.pc = "write"
  /\ IsWriteAfterTerminal(task.res)
  /\ sms.currentSitemap # task.sitemapAtStart

\* Once an item is in that state it stays in it, whatever step is taken:
\* it is never called back.
C29_NeverLeaves == [][Resubmitting => Resubmitting']_vars

(* C29 as stated: a write refused as a write after end by a shard obtained *)
(* during the item's own processing is re-submitted to the current shard   *)
(* with no factory call and no index entry, and the processing ends: the   *)
(* re-submitted write is not refused in the same way by the same shard.    *)
C29_Original ==
  \A k \in 1..Len(h.attempts) :
    RefusedAfterRotation(k) /\ ~Awaited(k) =>
      /\ ResubmittedInPlace(k)
      /\ ~RefusedAfterRotation(k + 1)

\* The items whose _transform has called back, in the order of the calls
\* to callback() and to callback(error) respectively.
CalledBack == h.accepted \o Ids(h.failed)

\* No _transform has called back twice.
C30_AtMostOnce ==
  \A i, j \in 1..Len(CalledBack) : CalledBack[i] = CalledBack[j] => i = j

(* C30 as stated: every _transform call invokes its callback exactly once  *)
(* on every path: no item is called back twice, and when no closure is     *)
(* running any more (pendingWrites = 0, the finally block has run) every   *)
(* item that entered _transform has been called back.                      *)
C30_Original ==
  /\ C30_AtMostOnce
  /\ sms.pendingWrites = 0 => Len(CalledBack) = sms.itemCountTotal

(* C31 as stated: the orchestrator calls end() on each shard at most once  *)
(* over the whole run, rotation and finalization taken together, and never *)
(* on a shard that a limit error destroyed.                                *)
C31_Original ==
  \A s \in 1..Len(shards) :
    /\ shards[s].endCalls <= 1
    /\ shards[s].destroyed => shards[s].endCalls = 0

\* The second half of C31 alone: a destroyed shard is never ended, and
\* only the current shard is ever ended.
C31_DestroyedNotEnded ==
  \A s \in 1..Len(shards) :
    /\ shards[s].destroyed => shards[s].endCalls = 0
    /\ shards[s].endCalls > 0 => s = sms.currentSitemap

\* The write in progress has succeeded and awaits its callback.
SuccessPending ==
  \/ task.pc = "write" /\ task.res = "ok"
  \/ task.pc = "idxFirst"

\* The current shard with its sink handle, the pending index entry, the
\* configured limits, and the factory calls made so far.
Ledger ==
  <<sms.currentSitemap, sms.hasPipeline, sms.idxItem, sms.countLimit,
    sms.byteLimit, h.factoryCalls, Len(shards)>>

\* This step issues an item's first write, and the shard accepts it.
FirstWriteAccepted ==
  /\ Len(h'.attempts) = Len(h.attempts) + 1
  /\ Last(h'.targets).res = "ok"
  /\ task.pc # "idxRotate"
  /\ ~(task.pc = "write" /\ task.res # "ok")

(* C32: a write that the current shard accepts leaves the ledger as it is, *)
(* from the step that issues it to the step that calls it back: no factory *)
(* call, same current shard, sink handle, pending index entry and limits;  *)
(* sitemapCount advances by one when the item is the first ever written    *)
(* and not at all otherwise.                                               *)
C32_SuccessFrame ==
  [][ /\ SuccessPending => Ledger' = Ledger /\ sms'.sitemapCount = sms.sitemapCount
      /\ FirstWriteAccepted =>
           /\ Ledger' = Ledger
           /\ sms'.sitemapCount =
                sms.sitemapCount + (IF sms'.itemCountTotal = 1 THEN 1 ELSE 0)
    ]_vars

\* three items were accepted by the first shard: one factory call, and
\* sitemapCount advanced by the first item only
C32_Witness ==
  /\ Len(h.accepted) >= 2
  /\ Len(shards) = 1
  /\ h.factoryCalls = <<0>>
  /\ sms.sitemapCount = 1
  /\ shards[1].itemCount >= 2

\* An item is being processed: its _transform closure has not reached the
\* finally block.
InProgress == task.pc \in {"write", "idxFirst", "idxRotate"}

\* The closures that have run to their end: those that called back, and
\* the one the outer catch ended without a callback.
Finished == Len(CalledBack) + (IF task.pc = "hung" THEN 1 ELSE 0)

(* C33: pendingWrites is never negative; it is the number of items that    *)
(* entered _transform less the number whose processing has finished, on    *)
(* whichever path; it is 1 while an item is being processed and 0 when     *)
(* none is; doTheFlush has been entered only with pendingWrites = 0 and at *)
(* least one flush callback queued.                                        *)
C33_PendingWrites ==
  /\ sms.pendingWrites >= 0
  /\ sms.pendingWrites = sms.itemCountTotal - Finished
  /\ sms.pendingWrites = (IF InProgress THEN 1 ELSE 0)
  /\ h.flushAt \subseteq {0}
  /\ 0 \notin h.flushQueue

\* a second item's _transform ended in the outer catch, the counter back
\* at 0
C33_HungAtZero ==
  /\ sms.itemCountTotal >= 2
  /\ sms.pendingWrites = 0
  /\ task.pc = "hung"

\* two items or more went through _transform and were called back, and
\* doTheFlush has been entered with a callback queued
C33_Witness ==
  /\ sms.itemCountTotal >= 2
  /\ sms.pendingWrites = 0
  /\ Len(h.accepted) = sms.itemCountTotal
  /\ h.flushAt = {0}
  /\ h.flushQueue # {}

(* C34: with no sink handle the onFinish closure is given to the shard's   *)
(* end() and nothing is hung on a sink, and onFinish runs only once the    *)
(* shard has finished; with a sink handle end() is given no callback, the  *)
(* closure hangs on the sink's 'finish', and onFinish runs only once the   *)
(* sink has finished.                                                      *)
C34_WaitsForSinkOrEnd ==
  /\ \A s \in 1..Len(shards) :
       IF shards[s].hasSink
       THEN shards[s].endCbs = <<>> /\ shards[s].lateCbs = <<>>
       ELSE shards[s].sinkListeners = <<>>
  /\ \A e \in h.onFinishAt :
       IF e.hasSink THEN e.sinkFinished ELSE e.finished

\* onFinish has run for a shard with a sink, after the sink's 'finish'
C34_Witness ==
  /\ shards[sms.currentSitemap].hasSink
  /\ shards[sms.currentSitemap].sinkFinished
  /\ h.onFinishAt # {}
  /\ h.flushQueue # {}

\* onFinish has run for a shard without a sink, from end()'s callback
C34_WitnessNoSink ==
  /\ ~shards[sms.currentSitemap].hasSink
  /\ shards[sms.currentSitemap].finished
  /\ h.onFinishAt # {}

====
